---- MODULE Spec2Model ----
(***************************************************************************)
(* Click-to-lead attribution core of PrepEng LinkHub (src/app/main.py) and *)
(* the stand-alone chat-platform webhook app (src/app/app/main.py).        *)
(*                                                                         *)
(* The three tables (clicks, choices, leads) are sequences of rows in      *)
(* insertion order.  Each HTTP request runs in one of MaxProcs request     *)
(* slots; a handler is split into steps at its database statements, so     *)
(* that requests interleave exactly where two workers sharing the database *)
(* can interleave.  A Python str that the code slices or measures is a     *)
(* sequence of one-character strings; None and "" (both falsy, never told  *)
(* apart by main.py) are the empty sequence.  Columns that no handler      *)
(* reads back and no decision depends on (src, ttclid, utm_source,         *)
(* utm_medium, user_agent, ip, raw) are left out of the rows.  A step that *)
(* reads and writes nothing shared (parsing a body, the return of the      *)
(* notifier call, the loop moving past an event, sending the response) is  *)
(* not interleaved with other requests: see LocalPcs.                      *)
(***************************************************************************)
EXTENDS Integers, Sequences, FiniteSets, TLC

\* ------------------------------------------------------------------ bounds
MaxProcs == 2      \* requests in flight at the same time
NumTokens == 1     \* distinct values new_ref() can return
MaxEvents == 2     \* events carried by one webhook delivery
MaxClicks == 3     \* Click rows stored before a /admin/stats request

\* ------------------------------------------------------------- value space
RefLen == 16                       \* hexdigest()[:16]
LineIdLen == 10                    \* user_id[:10]

HexDigits == <<"1", "2", "3", "4", "5", "6", "7", "8", "9", "a", "b", "c", "d", "e", "f">>
Hex16(c) == [i \in 1..RefLen |-> IF i < RefLen THEN "0" ELSE c]

\* new_ref(): sha1 of time and 8 random bytes, first 16 hex characters.  The
\* result is any 16-character hex string; nothing makes it differ from an
\* earlier result.
new_ref == {Hex16(HexDigits[i]) : i \in 1..NumTokens}

NoStr == <<>>                      \* Python None / ""
Absent == <<"<absent>">>           \* key not present in a payload mapping
NotAMapping == <<"<str>">>         \* a JSON string where a mapping is expected
AttributeError == <<"<AttributeError>">>   \* .get(...) on a value that has no .get
NULL == 0                          \* SQL NULL in an integer column (ids start at 1)
PyNone == "<None>"                 \* None where the code can tell it from ""

UnknownRef == Hex16("0")           \* a well-formed token that new_ref never returned
Psid1 == <<"7", "0", "1">>
Psid2 == <<"7", "0", "2">>
Senders == {Psid1, Psid2}

\* LINE user ids: U1 is longer than the 10 characters the token keeps, U3 shorter.
U1 == <<"U", "0", "1", "2", "3", "4", "5", "6", "7", "8", "a">>
U3 == <<"U", "f">>
LineUsers == {NoStr, U1, U3}
LineTypes == {"follow", "message", "unfollow"}
LineEvents == [type : LineTypes, userId : LineUsers]

\* utm_campaign of the page a /track request comes from.  The requests of
\* Spec carry none; admin_stats is checked over tables of every campaign mix
\* under SpecStats.
TrackCampaigns == {NoStr}

KnownDests == {"messenger", "line", "shopee"}
Dests == KnownDests \cup {"tiktok"}

\* ------------------------------------------------------------------- state
VARIABLES clicks, choices, leads, procs, env, hs, fired

db == <<clicks, choices, leads>>
vars == <<clicks, choices, leads, procs, env, hs, fired>>

Procs == 1..MaxProcs

\* The body of a /admin/stats response before any of its queries has run.
NoStats == [clicks |-> 0, leads |-> 0, clicks_by_campaign |-> <<>>]

\* The outcome slot of a request that has made no notifier call.
NoOutcome == [raised |-> FALSE, kind |-> "", status |-> 0]

Idle == [kind |-> "idle", pc |-> "idle", status |-> 0, dest |-> "", ref |-> NoStr,
         sender |-> NoStr, click |-> NULL, left |-> 0, events |-> <<>>,
         sigkey |-> "", tampered |-> FALSE, capi |-> NoOutcome, resp |-> NoStats]

\* Points a request passes with no other request stepping in between, the
\* step into them or out of them touching nothing shared: the notifier call
\* is in flight ("notify"), the body is verified and parsed and its loop about
\* to start ("parsed"), an event has been passed over ("skipped"), the
\* response is ready ("done").
LocalPcs == {"notify", "parsed", "skipped", "done"}

\* No request is at one of LocalPcs.
Quiet == \A q \in Procs : procs[q].pc \notin LocalPcs

\* A slot is taken in index order: which idle slot serves a request is immaterial.
Free(p) == Quiet /\ procs[p] = Idle /\ \A q \in 1..(p - 1) : procs[q] # Idle

\* Request p is at step pc of handler kind.
At(p, kind, pc) == Quiet /\ procs[p].kind = kind /\ procs[p].pc = pc

\* ----------------------------------------------------------------- storage
\* datetime.utcnow as a logical clock: it advances with every committed row.
utcnow == Len(clicks) + Len(leads) + 1

\* Integer primary key of the next row of a table nothing is deleted from.
NextId(rows) == Len(rows) + 1

\* Click.ref_token: unique=True.
ClickUniqueOK(cs, row) == \A i \in 1..Len(cs) : cs[i].ref_token # row.ref_token

\* The leads table without its unique indexes.
LeadUniqueOK_NoIndex(ls, row) == TRUE

\* Lead.ref_token: unique=True; Lead.click_id: unique=True (NULLs never conflict).
LeadUniqueOK(ls, row) ==
    /\ \A i \in 1..Len(ls) : ls[i].ref_token # row.ref_token
    /\ row.click_id # NULL => \A i \in 1..Len(ls) : ls[i].click_id # row.click_id

\* A commit that overwrites the stored row of the same token (a merge) instead
\* of being rejected.
CommitLead_Replace(ls, row) ==
    IF LeadUniqueOK(ls, row) THEN [ok |-> TRUE, leads |-> Append(ls, row)]
    ELSE [ok |-> TRUE,
          leads |-> [i \in 1..Len(ls) |->
                       IF ls[i].ref_token = row.ref_token THEN [row EXCEPT !.id = ls[i].id]
                       ELSE ls[i]]]

\* db.add(row); db.commit() on leads: the row is stored unless a unique index
\* rejects it (IntegrityError, nothing written).
CommitLead(ls, row) ==
    IF LeadUniqueOK(ls, row) THEN [ok |-> TRUE, leads |-> Append(ls, row)]
    ELSE [ok |-> FALSE, leads |-> ls]

\* db.add(click); db.flush() on clicks, likewise.
FlushClick(cs, row) ==
    IF ClickUniqueOK(cs, row) THEN [ok |-> TRUE, clicks |-> Append(cs, row)]
    ELSE [ok |-> FALSE, clicks |-> cs]

Click(ref, campaign) == [id |-> NextId(clicks), ref_token |-> ref, created_at |-> utcnow,
                         utm_campaign |-> campaign]

\* A Choice that takes the id its Click would have after one more insert.
Choice_Dangling(click_id, dest) == [id |-> NextId(choices), click_id |-> click_id + 1,
                                    dest |-> dest, created_at |-> utcnow]

Choice(click_id, dest) == [id |-> NextId(choices), click_id |-> click_id, dest |-> dest,
                           created_at |-> utcnow]

Lead(click_id, ref, channel, user) ==
    [id |-> NextId(leads), click_id |-> click_id, ref_token |-> ref, channel |-> channel,
     external_user_id |-> user, first_event_at |-> utcnow, status |-> "new"]

\* A lookup that falls back to the latest Click when no token matches.
FindClick_Latest(ref) ==
    IF \E i \in 1..Len(clicks) : clicks[i].ref_token = ref
    THEN (CHOOSE i \in 1..Len(clicks) : clicks[i].ref_token = ref)
    ELSE Len(clicks)

\* db.query(Click).filter(Click.ref_token==ref).one_or_none(): id of the row, or NULL.
FindClick(ref) ==
    IF \E i \in 1..Len(clicks) : clicks[i].ref_token = ref
    THEN (CHOOSE i \in 1..Len(clicks) : clicks[i].ref_token = ref)
    ELSE NULL

\* db.query(Lead).filter(Lead.ref_token==ref).one_or_none(): id of the row, or NULL.
FindLead(ref) ==
    IF \E i \in 1..Len(leads) : leads[i].ref_token = ref
    THEN (CHOOSE i \in 1..Len(leads) : leads[i].ref_token = ref)
    ELSE NULL

\* ------------------------------------------------------ Conversion Notifier
NotifyEvents == {"LeadClick", "Lead"}

\* What httpx.post(url, json=data, timeout=10.0) can do: answer with a status
\* code, or raise (connection refused, no answer within the timeout).
HttpResults == {[raised |-> FALSE, status |-> 200], [raised |-> FALSE, status |-> 500],
                [raised |-> TRUE, status |-> 0]}

\* The notifier without its try/except: an exception of httpx.post leaves it.
capi_send_facebook_NoTry(event_name, http) ==
    IF env.FB_CAPI_PIXEL_ID = "" \/ env.FB_CAPI_ACCESS_TOKEN = ""
    THEN [raised |-> FALSE, kind |-> "skipped", status |-> 0]
    ELSE IF http.raised THEN [raised |-> TRUE, kind |-> "error", status |-> 0]
    ELSE [raised |-> FALSE, kind |-> "sent", status |-> http.status]

\* capi_send_facebook(event_name, click, lead): what the call gives back to
\* the handler.  {"skipped": ...} without both credentials; otherwise the
\* POST, whose status is returned whatever it is and whose exception is
\* caught and returned as {"error": ...}.  raised: an exception leaves the call.
capi_send_facebook(event_name, http) ==
    IF env.FB_CAPI_PIXEL_ID = "" \/ env.FB_CAPI_ACCESS_TOKEN = ""
    THEN [raised |-> FALSE, kind |-> "skipped", status |-> 0]
    ELSE IF http.raised THEN [raised |-> FALSE, kind |-> "error", status |-> 0]
    ELSE [raised |-> FALSE, kind |-> "sent", status |-> http.status]

\* fired counts the notifier calls made, by event name and Click token.
Fire(f, event_name, ref) == [f EXCEPT ![<<event_name, ref>>] = @ + 1]

\* tiktok_events_api returns {"skipped": ...} and does nothing else.

\* ------------------------------------------------------------- POST /track
\* The response of track_choice once the rows are committed.
TrackStatus(dest, page_id) ==
    IF dest = "messenger" THEN (IF page_id = "" THEN 500 ELSE 200)
    ELSE IF dest = "line" THEN 200
    ELSE IF dest = "shopee" THEN 200
    ELSE 400

\* track_choice up to its notifier call: new_ref, add + flush the Click, add
\* the Choice, commit (one transaction), capi_send_facebook("LeadClick", click).
\* A ref_token that is already stored makes flush raise IntegrityError:
\* nothing is written and the request ends 500.
track_choice(p) ==
    /\ Free(p)
    /\ \E dest \in Dests, ref \in new_ref, campaign \in TrackCampaigns :
         LET click == Click(ref, campaign)
             ch == Choice(click.id, dest)
             flushed == FlushClick(clicks, click)
         IN IF flushed.ok
            THEN /\ clicks' = flushed.clicks
                 /\ choices' = Append(choices, ch)
                 /\ fired' = Fire(fired, "LeadClick", ref)
                 /\ procs' = [procs EXCEPT ![p] =
                       [Idle EXCEPT !.kind = "track", !.pc = "notify", !.dest = dest,
                                    !.ref = ref]]
            ELSE /\ UNCHANGED <<clicks, choices, fired>>
                 /\ procs' = [procs EXCEPT ![p] =
                       [Idle EXCEPT !.kind = "track", !.pc = "done", !.dest = dest,
                                    !.ref = ref, !.status = 500]]
    /\ UNCHANGED <<leads, env, hs>>

\* The notifier call of track_choice returns; its result is not looked at, and
\* the response is built by dest.
TrackNotified(p) ==
    /\ procs[p].kind = "track" /\ procs[p].pc = "notify"
    /\ \E http \in HttpResults :
         LET pr == procs[p]
             out == capi_send_facebook("LeadClick", http)
         IN procs' = [procs EXCEPT ![p] =
               IF out.raised
               THEN [pr EXCEPT !.pc = "done", !.status = 500, !.capi = out]
               ELSE [pr EXCEPT !.pc = "done", !.capi = out,
                               !.status = TrackStatus(pr.dest, env.FB_PAGE_ID)]]
    /\ UNCHANGED <<clicks, choices, leads, env, hs, fired>>

\* --------------------------------------------------- POST /webhook/facebook
\* Messaging events a delivery can carry: sender.id, and the ref of a direct
\* referral and of a postback's referral (Absent: the key is not there, or the
\* postback has no "referral" in it; NoStr: the mapping is there without a
\* ref; NotAMapping: the referral is a string).
FbRefs == new_ref \cup {UnknownRef, NoStr, Absent, NotAMapping}
FbMsgs == [sender : Senders, referral : FbRefs, postback : FbRefs]

\* ref = msg["referral"].get("ref") if "referral" in msg, else the postback's
\* referral's; .get on a string raises AttributeError.
FbRef(msg) ==
    LET referral == IF msg.referral # Absent THEN msg.referral
                    ELSE IF msg.postback # Absent THEN msg.postback
                    ELSE NoStr
    IN IF referral = NotAMapping THEN AttributeError ELSE referral

\* The loop moves on to the next messaging event; after the last one the
\* handler returns {"ok": True}.
FbAdvance(pr) ==
    IF pr.left > 1
    THEN [pr EXCEPT !.pc = "find_click", !.left = pr.left - 1, !.sender = NoStr,
                    !.ref = NoStr, !.click = NULL]
    ELSE [pr EXCEPT !.pc = "done", !.status = 200, !.left = 0, !.sender = NoStr,
                    !.ref = NoStr, !.click = NULL]

\* One iteration up to its first query: `if ref:` and the Click lookup.  An
\* exception raised while reading the event leaves the handler (500).  An
\* event with no ref, or with a ref of no stored Click, is passed over.
FbFindClickStep(pr, msg) ==
    LET ref == FbRef(msg)
        click == IF ref = NoStr THEN NULL ELSE FindClick(ref)
    IN IF ref = AttributeError
       THEN [pr EXCEPT !.pc = "done", !.status = 500, !.left = 0]
       ELSE IF click = NULL
       THEN [pr EXCEPT !.pc = "skipped", !.ref = ref]
       ELSE [pr EXCEPT !.pc = "find_lead", !.sender = msg.sender, !.ref = ref,
                       !.click = click]

\* fb_webhook, a delivery arrives: n messaging events over all its entries.
\* Reading the payload touches nothing shared, so it is one step with the first
\* event's Click lookup.
fb_webhook(p) ==
    /\ Free(p)
    /\ \E n \in 0..MaxEvents :
         LET pr == [Idle EXCEPT !.kind = "fb", !.left = n]
         IN IF n = 0
            THEN procs' = [procs EXCEPT ![p] = FbAdvance(pr)]
            ELSE \E msg \in FbMsgs :
                   procs' = [procs EXCEPT ![p] = FbFindClickStep(pr, msg)]
    /\ UNCHANGED <<clicks, choices, leads, env, hs, fired>>

\* The Click lookup of a later event of the delivery.
FbFindClick(p) ==
    /\ At(p, "fb", "find_click")
    /\ \E msg \in FbMsgs : procs' = [procs EXCEPT ![p] = FbFindClickStep(procs[p], msg)]
    /\ UNCHANGED <<clicks, choices, leads, env, hs, fired>>

\* The loop moves past an event it did nothing for.
FbSkipped(p) ==
    /\ procs[p].kind = "fb" /\ procs[p].pc = "skipped"
    /\ procs' = [procs EXCEPT ![p] = FbAdvance(procs[p])]
    /\ UNCHANGED <<clicks, choices, leads, env, hs, fired>>

\* lead = db.query(Lead).filter(Lead.ref_token==ref).one_or_none(); `if not lead:`
FbFindLead(p) ==
    /\ At(p, "fb", "find_lead")
    /\ procs' = [procs EXCEPT ![p] =
          IF FindLead(procs[p].ref) # NULL THEN FbAdvance(procs[p])
          ELSE [procs[p] EXCEPT !.pc = "insert"]]
    /\ UNCHANGED <<clicks, choices, leads, env, hs, fired>>

\* A Lead that is not linked to its Click.
FbLead_Unlinked(click_id, ref, sender) == Lead(NULL, ref, "messenger", sender)

\* The row fb_webhook adds for a found Click.
FbLead(click_id, ref, sender) == Lead(click_id, ref, "messenger", sender)

\* db.add(lead); db.commit(); capi_send_facebook("Lead", click, lead).  A
\* unique index that rejects the row raises IntegrityError out of the handler:
\* the delivery ends 500, the notifier is not called and the remaining events
\* are not processed.
FbInsert(p) ==
    /\ At(p, "fb", "insert")
    /\ LET pr == procs[p]
           done == CommitLead(leads, FbLead(pr.click, pr.ref, pr.sender))
       IN IF done.ok
          THEN /\ leads' = done.leads
               /\ fired' = Fire(fired, "Lead", pr.ref)
               /\ procs' = [procs EXCEPT ![p] =
                     [pr EXCEPT !.pc = "notify", !.sender = NoStr, !.ref = NoStr,
                                !.click = NULL]]
          ELSE /\ leads' = done.leads
               /\ UNCHANGED fired
               /\ procs' = [procs EXCEPT ![p] =
                     [pr EXCEPT !.pc = "done", !.status = 500, !.left = 0,
                                !.sender = NoStr, !.click = NULL]]
    /\ UNCHANGED <<clicks, choices, env, hs>>

\* The notifier call of fb_webhook returns; its result is not looked at and
\* the loop moves on.  The outcome is kept on the response only.
FbNotified(p) ==
    /\ procs[p].kind = "fb" /\ procs[p].pc = "notify"
    /\ \E http \in HttpResults :
         LET pr == procs[p]
             out == capi_send_facebook("Lead", http)
             nx == FbAdvance(pr)
         IN procs' = [procs EXCEPT ![p] =
               IF out.raised
               THEN [pr EXCEPT !.pc = "done", !.status = 500, !.left = 0, !.capi = out]
               ELSE IF nx.pc = "done" THEN [nx EXCEPT !.capi = out]
               ELSE nx]
    /\ UNCHANGED <<clicks, choices, leads, env, hs, fired>>

\* ------------------------------------------------------- POST /webhook/line
\* base64(HMAC-SHA256(key, body)): a symbolic digest, equal only for equal key
\* and equal body.
NoSignature == [alg |-> "", key |-> "", msg |-> <<>>]     \* header missing or empty
Signature(key, body) == [alg |-> "b64-hmac-sha256", key |-> key, msg |-> body]

\* The check without its guard on an unset secret.
verify_line_signature_NoSecretGuard(body, signature) ==
    LET secret == env.LINE_CHANNEL_SECRET
    IN IF signature = NoSignature THEN FALSE
       ELSE Signature(secret, body) = signature

verify_line_signature(body, signature) ==
    LET secret == env.LINE_CHANNEL_SECRET
    IN IF secret = "" \/ signature = NoSignature THEN FALSE
       ELSE Signature(secret, body) = signature

\* Keys a sender can sign with ("-": sends no signature), and the bodies.
SignKeys == {"-", "", "s1", "s2"}
SignCases == {c \in [key : SignKeys, tampered : BOOLEAN] : c.tampered => c.key = "s1"}
LineBodies == UNION {[1..n -> LineEvents] : n \in 0..MaxEvents}
TamperedBody(body) == <<[type |-> "tampered", userId |-> NoStr]>> \o body

\* The X-Line-Signature header of a request: made with key over the body sent,
\* or (tampered) over another body.
LineHeader(key, tampered, body) ==
    IF key = "-" THEN NoSignature
    ELSE Signature(key, IF tampered THEN TamperedBody(body) ELSE body)

\* ref_token of the Lead of a LINE user.
LinePrefix == <<"l", "i", "n", "e", "-">>
Take(s, n) == SubSeq(s, 1, IF Len(s) < n THEN Len(s) ELSE n)

\* The token without the cut to LineIdLen characters.
LineToken_NoTruncate(user_id) == LinePrefix \o user_id

LineToken(user_id) == LinePrefix \o Take(user_id, LineIdLen)

LineLead(user_id) == Lead(NULL, LineToken(user_id), "line", user_id)

\* An event with only a user id, whatever its type, taken as a contact.
IsLeadEvent_AnyType(ev) == ev.userId # NoStr

\* if ev_type in ("follow","message") and user_id:
IsLeadEvent(ev) == ev.type \in {"follow", "message"} /\ ev.userId # NoStr

\* One iteration of the loop over events, on the first of pr.events: a follow
\* or message event with a user id adds a Lead and commits, with no lookup
\* before it; a rejected row raises IntegrityError (500).
LineEventStep(p, pr) ==
    LET ev == Head(pr.events)
        rest == Tail(pr.events)
        next == IF rest = <<>> THEN [pr EXCEPT !.pc = "done", !.status = 200, !.events = <<>>]
                ELSE [pr EXCEPT !.pc = "event", !.events = rest]
        done == CommitLead(leads, LineLead(ev.userId))
    IN IF IsLeadEvent(ev)
       THEN IF done.ok
            THEN /\ leads' = done.leads
                 /\ procs' = [procs EXCEPT ![p] = next]
            ELSE /\ leads' = done.leads
                 /\ procs' = [procs EXCEPT ![p] =
                       [pr EXCEPT !.pc = "done", !.status = 500, !.events = <<>>]]
       ELSE /\ UNCHANGED leads
            /\ procs' = [procs EXCEPT ![p] = next]

\* line_webhook, a delivery arrives: signature check and json.loads.  They
\* touch nothing shared, so the first iteration of the loop follows at once.
line_webhook(p) ==
    /\ Free(p)
    /\ \E body \in LineBodies, c \in SignCases :
         LET pr == [Idle EXCEPT !.kind = "line", !.sigkey = c.key, !.tampered = c.tampered]
         IN procs' = [procs EXCEPT ![p] =
               IF ~verify_line_signature(body, LineHeader(c.key, c.tampered, body))
               THEN [pr EXCEPT !.pc = "done", !.status = 403]
               ELSE [pr EXCEPT !.pc = "parsed", !.events = body]]
    /\ UNCHANGED <<clicks, choices, leads, env, hs, fired>>

\* An iteration of the loop over the events: the first one of a parsed body,
\* or a later one.  A body without events is answered at once.
LineEvent(p) ==
    /\ procs[p].kind = "line"
    /\ procs[p].pc = "parsed" \/ At(p, "line", "event")
    /\ IF procs[p].events = <<>>
       THEN /\ procs' = [procs EXCEPT ![p] = [procs[p] EXCEPT !.pc = "done", !.status = 200]]
            /\ UNCHANGED leads
       ELSE LineEventStep(p, procs[p])
    /\ UNCHANGED <<clicks, choices, env, hs, fired>>

\* The response has been sent: the slot is free again.
Finish(p) ==
    /\ procs[p].pc = "done"
    /\ procs' = [procs EXCEPT ![p] = Idle]
    /\ UNCHANGED <<clicks, choices, leads, env, hs, fired>>

\* ---------------------------------------------------- GET /webhook/facebook
\* The handshake reads the environment only; it shares no state with the
\* other handlers and is checked under its own specification, SpecVerify.
NoHandshake == [app |-> "", mode |-> "", token |-> "", challenge |-> "", status |-> 0,
                body |-> ""]

\* os.getenv(name, default)
Getenv(name, default) == IF env[name] = PyNone THEN default ELSE env[name]

\* main.py, fb_verify(mode, challenge, verify_token): PlainTextResponse(challenge)
\* when verify_token equals the configured token, else an empty 403.
FbVerifyResponse(mode, challenge, verify_token) ==
    IF verify_token = Getenv("FB_VERIFY_TOKEN", "")
    THEN [status |-> 200, body |-> challenge]
    ELSE [status |-> 403, body |-> ""]

\* app/main.py, verify(request): VERIFY_TOKEN is os.getenv("FB_VERIFY_TOKEN"),
\* None when unset; a query parameter that is not sent reads as None.
VerifyResponse(mode, token, challenge) ==
    IF mode = "subscribe" /\ token = env.FB_VERIFY_TOKEN
    THEN [status |-> 200, body |-> IF challenge = PyNone THEN "" ELSE challenge]
    ELSE [status |-> 403, body |-> "Verification failed"]

Modes == {"subscribe", "unsubscribe", ""}
VerifyTokens == {"s3cret", "guess", ""}
Challenges == {"1158201444", "c2", ""}

\* A handshake request to main.py: a parameter that is not sent has its default "".
fb_verify ==
    /\ \E mode \in Modes, token \in VerifyTokens, challenge \in Challenges :
         LET r == FbVerifyResponse(mode, challenge, token)
         IN hs' = [app |-> "main", mode |-> mode, token |-> token, challenge |-> challenge,
                   status |-> r.status, body |-> r.body]
    /\ UNCHANGED <<clicks, choices, leads, procs, env, fired>>

\* A handshake request to app/main.py.
verify ==
    /\ \E mode \in Modes \cup {PyNone}, token \in VerifyTokens \cup {PyNone},
          challenge \in Challenges \cup {PyNone} :
         LET r == VerifyResponse(mode, token, challenge)
         IN hs' = [app |-> "app", mode |-> mode, token |-> token, challenge |-> challenge,
                   status |-> r.status, body |-> r.body]
    /\ UNCHANGED <<clicks, choices, leads, procs, env, fired>>

\* --------------------------------------------------------- GET /admin/stats
CampaignA == <<"A">>
CampaignB == <<"B">>
Campaigns == {NoStr, CampaignA, CampaignB}
NA == <<"N", "A">>

\* key = c.utm_campaign or "NA"
CampaignKey(c) == IF c.utm_campaign = NoStr THEN NA ELSE c.utm_campaign

\* A count that is set to one at every Click of the key.
CountClick_NoAdd(by_campaign, key) == (key :> 1) @@ by_campaign

\* by_campaign[key] = by_campaign.get(key,0)+1
CountClick(by_campaign, key) ==
    IF key \in DOMAIN by_campaign THEN [by_campaign EXCEPT ![key] = @ + 1]
    ELSE by_campaign @@ (key :> 1)

\* The loop over db.query(Click).all(), from row i on.
RECURSIVE ByCampaign(_, _, _)
ByCampaign(cs, i, by_campaign) ==
    IF i > Len(cs) THEN by_campaign
    ELSE ByCampaign(cs, i + 1, CountClick(by_campaign, CampaignKey(cs[i])))

\* admin_stats, first query: clicks = db.query(Click).count().  The handler's
\* three queries are three statements; other requests commit between them.
admin_stats(p) ==
    /\ Free(p)
    /\ procs' = [procs EXCEPT ![p] =
          [Idle EXCEPT !.kind = "stats", !.pc = "count_leads",
                       !.resp = [NoStats EXCEPT !.clicks = Len(clicks)]]]
    /\ UNCHANGED <<clicks, choices, leads, env, hs, fired>>

\* leads = db.query(Lead).count()
StatsCountLeads(p) ==
    /\ At(p, "stats", "count_leads")
    /\ procs' = [procs EXCEPT ![p] =
          [procs[p] EXCEPT !.pc = "all_clicks", !.resp.leads = Len(leads)]]
    /\ UNCHANGED <<clicks, choices, leads, env, hs, fired>>

\* for c in db.query(Click).all(): ..., and the response.
StatsByCampaign(p) ==
    /\ At(p, "stats", "all_clicks")
    /\ procs' = [procs EXCEPT ![p] =
          [procs[p] EXCEPT !.pc = "done", !.status = 200,
                           !.resp.clicks_by_campaign = ByCampaign(clicks, 1, <<>>)]]
    /\ UNCHANGED <<clicks, choices, leads, env, hs, fired>>

\* ------------------------------------------------------------------- spec
\* The process environment, fixed when the server starts: every setting made,
\* or none.  FB_PAGE_ID and LINE_CHANNEL_SECRET are read with the default "".
Configured == [FB_PAGE_ID |-> "1234", LINE_CHANNEL_SECRET |-> "s1", FB_VERIFY_TOKEN |-> "s3cret",
               FB_CAPI_PIXEL_ID |-> "px1", FB_CAPI_ACCESS_TOKEN |-> "tok1"]
Unconfigured == [FB_PAGE_ID |-> "", LINE_CHANNEL_SECRET |-> "", FB_VERIFY_TOKEN |-> PyNone,
                 FB_CAPI_PIXEL_ID |-> "", FB_CAPI_ACCESS_TOKEN |-> ""]

NoneFired == [k \in NotifyEvents \X new_ref |-> 0]

Init ==
    /\ clicks = <<>>
    /\ choices = <<>>
    /\ leads = <<>>
    /\ procs = [p \in Procs |-> Idle]
    /\ env \in {Configured, Unconfigured}
    /\ hs = NoHandshake
    /\ fired = NoneFired

Next ==
    \E p \in Procs :
        \/ track_choice(p)
        \/ TrackNotified(p)
        \/ fb_webhook(p)
        \/ FbFindClick(p)
        \/ FbSkipped(p)
        \/ FbFindLead(p)
        \/ FbInsert(p)
        \/ FbNotified(p)
        \/ line_webhook(p)
        \/ LineEvent(p)
        \/ Finish(p)

Spec == Init /\ [][Next]_vars

\* The handshake alone, for every way FB_VERIFY_TOKEN can be set.
InitVerify ==
    /\ clicks = <<>>
    /\ choices = <<>>
    /\ leads = <<>>
    /\ procs = [p \in Procs |-> Idle]
    /\ env \in {[Configured EXCEPT !.FB_VERIFY_TOKEN = t] : t \in {"s3cret", "", PyNone}}
    /\ hs = NoHandshake
    /\ fired = NoneFired

NextVerify == fb_verify \/ verify

SpecVerify == InitVerify /\ [][NextVerify]_vars

\* The reporting query next to /track, from tables of every campaign mix: up
\* to MaxClicks Clicks written by earlier /track requests (their tokens are
\* values new_ref does not return again here), each with its Choice, and the
\* messenger Lead of the first Click or none.
StatsToken(i) == Hex16(HexDigits[NumTokens + i])
StatsClicks ==
    UNION {{[i \in 1..n |-> [id |-> i, ref_token |-> StatsToken(i), created_at |-> i,
                             utm_campaign |-> f[i]]] : f \in [1..n -> Campaigns]}
           : n \in 0..MaxClicks}
StatsChoices(n) == [i \in 1..n |-> [id |-> i, click_id |-> i, dest |-> "messenger",
                                    created_at |-> i]]
StatsLeads(n) ==
    {<<>>} \cup (IF n = 0 THEN {}
                ELSE {<<[id |-> 1, click_id |-> 1, ref_token |-> StatsToken(1),
                         channel |-> "messenger", external_user_id |-> Psid1,
                         first_event_at |-> n + 1, status |-> "new"]>>})

InitStats ==
    /\ clicks \in StatsClicks
    /\ choices = StatsChoices(Len(clicks))
    /\ leads \in StatsLeads(Len(clicks))
    /\ procs = [p \in Procs |-> Idle]
    /\ env = Configured
    /\ hs = NoHandshake
    /\ fired = NoneFired

NextStats ==
    \E p \in Procs :
        \/ track_choice(p)
        \/ TrackNotified(p)
        \/ admin_stats(p)
        \/ StatsCountLeads(p)
        \/ StatsByCampaign(p)
        \/ Finish(p)

SpecStats == InitStats /\ [][NextStats]_vars

\* ------------------------------------------------------------------ claims
\* C1: in every reachable state no two Lead rows have the same token and no
\* two Lead rows have the same non-null Click reference.
C1_LeadsUnique ==
    \A i, j \in 1..Len(leads) :
        i # j => /\ leads[i].ref_token # leads[j].ref_token
                 /\ leads[i].click_id # NULL => leads[i].click_id # leads[j].click_id

\* C1 witness: Leads of both channels are stored and a racing chat-platform
\* insert for an already stored token has just been rejected.
C1_Witness ==
    /\ \E i, j \in 1..Len(leads) : leads[i].click_id # NULL /\ leads[j].click_id = NULL
    /\ \E p \in Procs : procs[p].kind = "fb" /\ procs[p].status = 500

\* C2: concurrent chat-platform deliveries for the same token leave one Lead
\* and every one of them completes with 200: no delivery ends in a storage
\* conflict.
C2_Claim ==
    [][\A p \in Procs :
          (procs[p].kind = "fb" /\ procs[p].pc = "insert" /\ procs'[p] # procs[p])
            => /\ procs'[p].status # 500
               /\ \A i \in 1..Len(clicks) :
                     Cardinality({j \in 1..Len(leads') :
                                    leads'[j].ref_token = clicks[i].ref_token}) <= 1]_vars

\* The steps of C3 for the channel tag the Lead is to carry: a /track that
\* answered 200 has stored the Click of its token; a delivery that looked up
\* token T found the Click for T; when no Lead for T is stored its insert adds
\* exactly one Lead (tag, token T, the event's sender, the Click for T); when
\* a Lead for T is stored at its lookup it adds none.
C3_Steps(tag) ==
    \A p \in Procs :
        LET pr == procs[p]
            stored == \E i \in 1..Len(leads) : leads[i].ref_token = pr.ref
        IN /\ (pr.kind = "track" /\ pr.status = 0 /\ procs'[p].status = 200)
                => \E i \in 1..Len(clicks') : clicks'[i].ref_token = procs'[p].ref
           /\ (pr.kind = "fb" /\ pr.pc = "find_lead" /\ procs'[p] # pr)
                => /\ pr.click \in 1..Len(clicks)
                   /\ clicks[pr.click].ref_token = pr.ref
                   /\ leads' = leads
                   /\ stored <=> procs'[p].pc # "insert"
           /\ (pr.kind = "fb" /\ pr.pc = "insert" /\ procs'[p] # pr /\ ~stored)
                => /\ Len(leads') = Len(leads) + 1
                   /\ SubSeq(leads', 1, Len(leads)) = leads
                   /\ leads'[Len(leads')].channel = tag
                   /\ leads'[Len(leads')].ref_token = pr.ref
                   /\ leads'[Len(leads')].external_user_id = pr.sender
                   /\ leads'[Len(leads')].click_id = pr.click
                   /\ clicks[pr.click].ref_token = pr.ref
                   /\ Cardinality({i \in 1..Len(leads') : leads'[i].ref_token = pr.ref}) = 1

\* C3 as stated: the Lead created for token T carries channel "chat".
C3_Original == [][C3_Steps("chat")]_vars

\* C3 amended: after /track returned a redirect with token T, a chat-platform
\* delivery whose referral.ref is T creates exactly one Lead with channel
\* "messenger", token T, the event's sender and the Click for T; a second
\* delivery processed after it creates no additional Lead.
C3_Thm == [][C3_Steps("messenger")]_vars

\* C3 witness: the Lead for the token of a messenger /track is stored, linked
\* to its Click, and a second delivery for the same token is at its Lead lookup.
C3_Witness ==
    \E i \in 1..Len(leads), p \in Procs :
        /\ leads[i].channel = "messenger" /\ leads[i].click_id # NULL
        /\ clicks[leads[i].click_id].ref_token = leads[i].ref_token
        /\ \E c \in 1..Len(choices) :
              choices[c].click_id = leads[i].click_id /\ choices[c].dest = "messenger"
        /\ env.FB_PAGE_ID # ""
        /\ procs[p].kind = "fb" /\ procs[p].pc = "find_lead"
        /\ procs[p].ref = leads[i].ref_token

\* C4: a /track request with an unknown dest is answered 400 and persists no
\* Click and no Choice.
C4_Claim ==
    [][\A p \in Procs :
          /\ (procs[p] = Idle /\ procs'[p].kind = "track" /\ procs'[p].dest \notin KnownDests)
               => clicks' = clicks /\ choices' = choices
          /\ (procs'[p].kind = "track" /\ procs'[p].pc = "done"
                 /\ procs'[p].dest \notin KnownDests)
               => procs'[p].status = 400]_vars

\* C5: a LINE delivery whose signature is missing, or is not the digest of its
\* body under the configured secret, or that arrives while no secret is
\* configured, is answered 403 and leaves the three tables unchanged.
C5_Thm ==
    [][\A p \in Procs :
          (/\ procs[p] = Idle
           /\ procs'[p].kind = "line"
           /\ \/ procs'[p].sigkey = "-"
              \/ procs'[p].sigkey # env.LINE_CHANNEL_SECRET
              \/ procs'[p].tampered
              \/ env.LINE_CHANNEL_SECRET = "")
            => /\ procs'[p].status = 403
               /\ procs'[p].pc = "done"
               /\ clicks' = clicks /\ choices' = choices /\ leads' = leads]_vars

\* C5 witness: with rows stored and a secret configured, a delivery signed with
\* the right key over another body has been answered 403.
C5_Witness ==
    /\ Len(clicks) > 0 /\ Len(leads) > 0
    /\ env.LINE_CHANNEL_SECRET # ""
    /\ \E p \in Procs :
          /\ procs[p].kind = "line" /\ procs[p].status = 403
          /\ procs[p].sigkey = env.LINE_CHANNEL_SECRET /\ procs[p].tampered

\* C6: a correctly signed LINE delivery is answered 200 also when it carries a
\* follow or message event of a user whose Lead is already stored.
C6_Claim ==
    \A p \in Procs :
        procs[p].kind = "line" /\ procs[p].pc = "done" => procs[p].status \in {200, 403}

\* C7: with secret S configured, the handshake answers 200 with the challenge
\* when mode is "subscribe" and the token is S, and 403 without the challenge
\* to every other request.
C7_Claim ==
    (env.FB_VERIFY_TOKEN = "s3cret" /\ hs.app # "")
      => IF hs.mode = "subscribe" /\ hs.token = "s3cret"
         THEN hs.status = 200
              /\ hs.body = (IF hs.challenge = PyNone THEN "" ELSE hs.challenge)
         ELSE hs.status = 403 /\ (hs.challenge \notin {"", PyNone} => hs.body # hs.challenge)

\* C8: once a Lead row exists no step changes or removes it.
C8_Thm ==
    [][\A i \in 1..Len(leads) : Len(leads') >= i /\ leads'[i] = leads[i]]_vars

\* C8 witness: a Lead is stored and a later event for its token, from another
\* sender, has reached its insert.
C8_Witness ==
    \E i \in 1..Len(leads), p \in Procs :
        /\ procs[p].kind = "fb" /\ procs[p].pc = "insert"
        /\ procs[p].ref = leads[i].ref_token
        /\ procs[p].sender # leads[i].external_user_id

\* C9: every /track request for a known dest persists exactly one new Click
\* and one new Choice that references it and records the dest, and no two
\* Click rows share a token.
C9_Claim ==
    [][\A p \in Procs :
          (procs[p] = Idle /\ procs'[p].kind = "track" /\ procs'[p].dest \in KnownDests)
            => /\ Len(clicks') = Len(clicks) + 1
               /\ SubSeq(clicks', 1, Len(clicks)) = clicks
               /\ Len(choices') = Len(choices) + 1
               /\ SubSeq(choices', 1, Len(choices)) = choices
               /\ choices'[Len(choices')].click_id = clicks'[Len(clicks')].id
               /\ choices'[Len(choices')].dest = procs'[p].dest
               /\ \A i, j \in 1..Len(clicks') :
                     i # j => clicks'[i].ref_token # clicks'[j].ref_token]_vars

\* C10: a /track request whose generated token is already stored is retried
\* with a fresh token: it ends with a persisted Click and the response of an
\* undisturbed request.
C10_Claim ==
    [][\A p \in Procs :
          (/\ procs[p] = Idle
           /\ procs'[p].kind = "track"
           /\ \E i \in 1..Len(clicks) : clicks[i].ref_token = procs'[p].ref)
            => /\ Len(clicks') = Len(clicks) + 1
               /\ Len(choices') = Len(choices) + 1
               /\ procs'[p].status \in {0, TrackStatus(procs'[p].dest, env.FB_PAGE_ID)}]_vars

\* C11: whatever the notifier call gives back (skipped, sent with any status,
\* failed on a network error or a timeout), the request goes on exactly as
\* after a successful call: /track answers by its dest, a chat-platform
\* delivery moves to its next event or answers 200, and no row changes.
C11_Thm ==
    [][\A p \in Procs :
          LET pr == procs[p]
              after == [procs'[p] EXCEPT !.capi = NoOutcome]
          IN (pr.pc = "notify" /\ procs'[p] # pr)
               => /\ clicks' = clicks /\ choices' = choices /\ leads' = leads
                  /\ procs'[p].pc = "done"
                       => procs'[p].capi.kind \in {"skipped", "sent", "error"}
                  /\ pr.kind = "track"
                       => after = [pr EXCEPT !.pc = "done",
                                             !.status = TrackStatus(pr.dest, env.FB_PAGE_ID)]
                  /\ pr.kind = "fb" => after = FbAdvance(pr)]_vars

\* C11 witness: the notifier call of a delivery that inserted a Lead failed
\* on the network, and the delivery is answered 200 with the Lead stored.
C11_Witness ==
    \E p \in Procs :
        /\ procs[p].kind = "fb" /\ procs[p].pc = "done"
        /\ procs[p].capi.kind = "error"
        /\ procs[p].status = 200
        /\ \E i \in 1..Len(leads) : leads[i].channel = "messenger"

\* A step that answers request p while its notifier call stays in flight.
C12_AnswersWhilePending(p) ==
    /\ Next
    /\ procs'[p].pc = "notify"
    /\ procs'[p].status # 0

\* C12: the notifier does not block the response path: a request whose
\* notifier call is in flight (the credentials are set, the POST is on its
\* way) can be answered while the call is still pending.
C12_Claim ==
    \A p \in Procs :
        (/\ procs[p].pc = "notify"
         /\ env.FB_CAPI_PIXEL_ID # "" /\ env.FB_CAPI_ACCESS_TOKEN # "")
          => ENABLED C12_AnswersWhilePending(p)

\* C13: for every Click token the number of "Lead" notifier calls equals the
\* number of Lead rows inserted for it and is at most one: the call is made
\* when the row is newly inserted and on no repeat.
C13_Thm ==
    \A r \in new_ref :
        /\ fired[<<"Lead", r>>] =
              Cardinality({i \in 1..Len(leads) : leads[i].ref_token = r})
        /\ fired[<<"Lead", r>>] <= 1

\* C13 witness: the Lead of a token is stored and notified once, and a later
\* event for the same token has found its Click and is at its Lead lookup.
C13_Witness ==
    \E r \in new_ref, p \in Procs :
        /\ fired[<<"Lead", r>>] = 1
        /\ FindLead(r) # NULL
        /\ procs[p].kind = "fb" /\ procs[p].pc = "find_lead" /\ procs[p].ref = r

\* C14: a chat-platform event that carries no referral token (neither in
\* referral nor in postback.referral), or whose token is the token of no
\* stored Click, is passed over: only an event whose token is that of a
\* stored Click goes on to the Lead lookup; passing an event over changes no
\* row and makes no notifier call, and the delivery goes on to its next event
\* or is answered 200.
C14_Thm ==
    /\ \A msg \in FbMsgs :
          (msg.referral \in {Absent, NoStr} /\ msg.postback \in {Absent, NoStr})
            => FbRef(msg) = NoStr
    /\ [][\A p \in Procs :
             LET pr == procs[p]
                 nx == procs'[p]
             IN /\ (nx.kind = "fb" /\ nx # pr /\ pr.pc \in {"idle", "find_click"})
                     => /\ clicks' = clicks /\ choices' = choices /\ leads' = leads
                        /\ fired' = fired
                        /\ nx.pc = "find_lead"
                             => /\ nx.ref # NoStr
                                /\ nx.click \in 1..Len(clicks)
                                /\ clicks[nx.click].ref_token = nx.ref
                        /\ nx.pc = "skipped"
                             => \/ nx.ref = NoStr
                                \/ \A i \in 1..Len(clicks) : clicks[i].ref_token # nx.ref
                /\ (pr.kind = "fb" /\ pr.pc = "skipped" /\ nx # pr)
                     => /\ clicks' = clicks /\ choices' = choices /\ leads' = leads
                        /\ fired' = fired
                        /\ nx.pc = (IF pr.left > 1 THEN "find_click" ELSE "done")
                        /\ nx.status = (IF pr.left > 1 THEN 0 ELSE 200)]_vars

\* C14 witness: with a Click and a Lead stored, an event whose token is the
\* token of no Click has been passed over.
C14_Witness ==
    /\ Len(clicks) > 0 /\ Len(leads) > 0
    /\ \E p \in Procs :
          procs[p].kind = "fb" /\ procs[p].pc = "skipped" /\ procs[p].ref = UnknownRef

\* C15: in a correctly signed LINE delivery an event of a type other than
\* follow and message, or without a user id, adds no Lead and is no error: a
\* delivery of such events only, or of none, is answered 200 with no Lead
\* created.
C15_Thm ==
    [][\A p \in Procs :
          LET pr == procs[p]
              nx == procs'[p]
          IN (/\ pr.kind = "line" /\ pr.pc \in {"parsed", "event"} /\ nx # pr
              /\ \/ pr.events = <<>>
                 \/ Head(pr.events).type \notin {"follow", "message"}
                 \/ Head(pr.events).userId = NoStr)
               => /\ clicks' = clicks /\ choices' = choices /\ leads' = leads
                  /\ IF Len(pr.events) <= 1
                     THEN nx.pc = "done" /\ nx.status = 200
                     ELSE nx.pc = "event" /\ nx.status = 0
                          /\ nx.events = Tail(pr.events)]_vars

\* C15 witness: a correctly signed delivery of an unfollow event and a follow
\* event without user id has processed the first and stored nothing.
C15_Witness ==
    /\ leads = <<>>
    /\ \E p \in Procs :
          /\ procs[p].kind = "line" /\ procs[p].pc = "event"
          /\ procs[p].sigkey = env.LINE_CHANNEL_SECRET
          /\ procs[p].events = <<[type |-> "follow", userId |-> NoStr]>>

\* Sum of the values of a mapping.
RECURSIVE C16_Sum(_)
C16_Sum(by_campaign) ==
    IF DOMAIN by_campaign = {} THEN 0
    ELSE LET k == CHOOSE k \in DOMAIN by_campaign : TRUE
         IN by_campaign[k] + C16_Sum([j \in DOMAIN by_campaign \ {k} |-> by_campaign[j]])

\* The steps of C16: each count is the number of rows of its table when its
\* query runs; clicks_by_campaign maps every campaign label of a stored Click
\* to the number of Clicks with it and the placeholder "NA" to the number of
\* Clicks with none; its values sum to clicks, always or (always = FALSE) when
\* no Click was committed since clicks was counted.
C16_Steps(always) ==
    \A p \in Procs :
        LET pr == procs[p]
            nx == procs'[p]
            by == nx.resp.clicks_by_campaign
            with(k) == {i \in 1..Len(clicks) : clicks[i].utm_campaign = k}
        IN /\ (pr = Idle /\ nx.kind = "stats") => nx.resp.clicks = Len(clicks)
           /\ (pr.kind = "stats" /\ pr.pc = "count_leads" /\ nx # pr)
                => nx.resp.leads = Len(leads) /\ nx.resp.clicks = pr.resp.clicks
           /\ (pr.kind = "stats" /\ pr.pc = "all_clicks" /\ nx # pr)
                => /\ nx.status = 200
                   /\ nx.resp.clicks = pr.resp.clicks /\ nx.resp.leads = pr.resp.leads
                   /\ DOMAIN by = {k \in Campaigns \ {NoStr} : with(k) # {}}
                                    \cup (IF with(NoStr) # {} THEN {NA} ELSE {})
                   /\ \A k \in DOMAIN by :
                         by[k] = Cardinality(with(IF k = NA THEN NoStr ELSE k))
                   /\ (always \/ Len(clicks) = pr.resp.clicks)
                        => C16_Sum(by) = nx.resp.clicks

C17_Claim ==
    [][\A p \in Procs :
          (procs'[p].kind = "fb" /\ procs'[p] # procs[p]
             /\ procs[p].pc \in {"idle", "find_click", "skipped"})
            => /\ procs'[p].status \in {0, 200}
               /\ leads' = leads]_vars

\* C18: every Choice references a stored Click; every Lead with a Click
\* reference references a stored Click of the Lead's token and carries the
\* channel of the chat-platform handler; no step removes or changes a Click or
\* a Lead, so the row counts never decrease.
C18_Thm ==
    [][/\ \A i \in 1..Len(choices') :
             /\ choices'[i].click_id \in 1..Len(clicks')
             /\ clicks'[choices'[i].click_id].id = choices'[i].click_id
       /\ \A i \in 1..Len(leads') :
             leads'[i].click_id # NULL
               => /\ leads'[i].click_id \in 1..Len(clicks')
                  /\ clicks'[leads'[i].click_id].id = leads'[i].click_id
                  /\ clicks'[leads'[i].click_id].ref_token = leads'[i].ref_token
                  /\ leads'[i].channel = "messenger"
       /\ Len(clicks') >= Len(clicks) /\ SubSeq(clicks', 1, Len(clicks)) = clicks
       /\ Len(leads') >= Len(leads) /\ SubSeq(leads', 1, Len(leads)) = leads]_vars

\* C18 witness: a Choice, a Lead linked to a Click and a Lead without a Click
\* reference are stored.
C18_Witness ==
    /\ Len(choices) > 0
    /\ \E i, j \in 1..Len(leads) :
          /\ leads[i].click_id # NULL /\ leads[i].channel = "messenger"
          /\ leads[j].click_id = NULL /\ leads[j].channel = "line"
          /\ i < j

\* C19: every LINE Lead has no Click reference and the token "line-" followed
\* by the first 10 characters of its user id; Click tokens have 16 characters
\* and the LINE token never has, so it is the token of no Click, and the
\* insert of the chat-platform handler for a Click is rejected only when a
\* chat-platform Lead of that Click is stored, never because of a LINE Lead.
C19_Thm ==
    [][/\ \A i \in 1..Len(leads') :
             leads'[i].channel = "line"
               => LET tok == leads'[i].ref_token
                      uid == leads'[i].external_user_id
                      kept == IF Len(uid) < 10 THEN Len(uid) ELSE 10
                  IN /\ leads'[i].click_id = NULL
                     /\ Len(tok) = 5 + kept
                     /\ SubSeq(tok, 1, 5) = <<"l", "i", "n", "e", "-">>
                     /\ \A k \in 1..kept : tok[5 + k] = uid[k]
                     /\ Len(tok) # 16
                     /\ \A c \in 1..Len(clicks') : clicks'[c].ref_token # tok
       /\ \A c \in 1..Len(clicks') : Len(clicks'[c].ref_token) = 16
       /\ \A p \in Procs :
             (procs[p].kind = "fb" /\ procs[p].pc = "insert" /\ procs'[p] # procs[p]
                /\ \A i \in 1..Len(leads) : leads[i].channel # "messenger")
               => /\ Len(leads') = Len(leads) + 1
                  /\ leads'[Len(leads')].click_id = procs[p].click
                  /\ procs'[p].status = 0]_vars

\* C19 witness: LINE Leads of a long and of a short user id are stored, and
\* the chat-platform Lead of a Click has been inserted after them.
C19_Witness ==
    \E i, j, k \in 1..Len(leads) :
        /\ leads[i].channel = "line" /\ leads[i].external_user_id = U1
        /\ leads[j].channel = "line" /\ leads[j].external_user_id = U3
        /\ leads[k].channel = "messenger" /\ leads[k].click_id # NULL
        /\ i < k /\ j < k

\* C20: when no verification secret is configured the handshake never
\* succeeds: no request is answered 200.
C20_Claim ==
    (env.FB_VERIFY_TOKEN = PyNone /\ hs.app # "") => hs.status # 200
====
